---------------------------- MODULE Spec2Model ----------------------------
(***************************************************************************)
(* Model of the streaming worker of src/worker/worker.py                   *)
(* (InfiniteFlux2StreamHandlers): the lifecycle handlers on_start, on_stop  *)
(* and update_params, the two background tasks _send_frames and             *)
(* _generate_images_for_video, and the worker thread that runs              *)
(* _run_inference_with_callback.                                            *)
(*                                                                          *)
(* Coroutines of the asyncio event loop are atomic between their await      *)
(* points.  The inference runs in a thread (asyncio.to_thread), so every    *)
(* statement of _run_inference_with_callback interleaves with the event     *)
(* loop: update_params is cut at each assignment that changes the           *)
(* configuration, copy.deepcopy(self.cfg) before each field that can change *)
(* while it reads.  A thread cannot be cancelled: when on_stop cancels the  *)
(* generator task, the thread it awaits runs on and its result is dropped.  *)
(***************************************************************************)
EXTENDS Integers, Sequences, FiniteSets, TLC

VARIABLES
    cfg,                        \* self.cfg (InfiniteFlux2Config)
    runner_ready,               \* self.runner_ready
    background_tasks,           \* self.background_tasks
    inference_lock,             \* self.inference_lock: "free" or its holder
    inference_in_progress,      \* self.inference_in_progress
    inference_count,            \* self.inference_count
    interrupt_requested,        \* self.interrupt_requested
    inference_completed_event,  \* self.inference_completed_event (is it set)
    frame_queue,                \* self.frame_queue
    frame_timestamp,            \* self.frame_timestamp
    timestamp_increment,        \* self.timestamp_increment
    placeholder_frame,          \* self.placeholder_frame
    current_frame,              \* self.current_frame (the Frame Holder)
    stop_event,                 \* processor.server.current_client.stop_event
    sender,                     \* the _send_frames task: pc, video_frame
    generator,                  \* the _generate_images_for_video task: pc, job
    jobs,                       \* the running inference threads, by number
    njobs,                      \* inference threads created so far
    ended,                      \* the inference that ended last
    good,                       \* the session's last inference that gave an image
    call,                       \* the handler the event loop is executing
    stop,                       \* the on_stop coroutine: pc, time waited, and
                                \* what it found when it was called
    streaming,                  \* the hosting runtime has a stream open
    sink,                       \* frames handed to processor.send_input_frame
    result,                     \* how the latest start / stop / update ended
    updates                     \* the update_params calls made so far, the
                                \* parameters of the latest and the inference
                                \* it found running

\* server.py: the tables of the database, the clock, and the requests
VARIABLES
    credit_balance,             \* users.credit_balance of the user
    credit_transactions,        \* the credit_transactions table, in order
    payment_sessions,           \* the payment_sessions table, by session_id
    session_payments,           \* the session_payments table, in order
    utcnow,                     \* datetime.utcnow(), in minutes
    handlers,                   \* the endpoint coroutines: their position,
                                \* their local variables, their response
    requests                    \* the requests received so far, by endpoint

workerVars == <<cfg, runner_ready, background_tasks, inference_lock,
                inference_in_progress, inference_count, interrupt_requested,
                inference_completed_event, frame_queue, frame_timestamp,
                timestamp_increment, placeholder_frame, current_frame,
                stop_event, sender, generator, jobs, njobs, ended, good, call,
                stop, streaming, sink, result, updates>>

serverVars == <<credit_balance, credit_transactions, payment_sessions,
                session_payments, utcnow, handlers, requests>>

vars == <<cfg, runner_ready, background_tasks, inference_lock,
          inference_in_progress, inference_count, interrupt_requested,
          inference_completed_event, frame_queue, frame_timestamp,
          timestamp_increment, placeholder_frame, current_frame, stop_event,
          sender, generator, jobs, njobs, ended, good, call, stop, streaming,
          sink, result, updates, credit_balance, credit_transactions,
          payment_sessions, session_payments, utcnow, handlers, requests>>

----------------------------------------------------------------------------
(* Bounds of the model *)

MaxJobs == 2
MaxPolls == 1
MaxUpdates == 2
UpdateJobs == 2
SeedJobs == 2
EmitJobs == 1
MaxEmit == 2
StartJobs == 1
StartEmit == 1
MaxParamCalls == 2
TimingUpdates == 1
MaxDeposits == 1
MaxSessions == 1
MaxWebhooks == 2
MaxCloses == 1
MaxClock == 30

(* Program constants *)

time_base == 90000
fps == 16
GracePeriod == 20
target_squares_per_dim == 16
no_audio_in_stream == TRUE
FEE_PERCENTAGE == 5
SESSION_TIMEOUT_MINUTES == 20

\* The time that passes in one step of the clock
ClockStep == 15

\* The requests the server can have in hand
Slots == {1, 2}

\* Amounts of the deposits (one of them negative) and of the webhook
\* payments, and the payment ids of the webhooks
DepositMenu == {42, -21}
WebhookMenu == {20}
PaymentIds == {"p1", "p2"}

----------------------------------------------------------------------------
(* Values *)

None == "None"

IntV(n) == [t |-> "int", v |-> n]
StrV(s) == [t |-> "str", v |-> s]
BoolV(b) == [t |-> "bool", v |-> b]

Ok(v) == [ok |-> TRUE, v |-> v]
Raise(e) == [ok |-> FALSE, v |-> e]

\* m // n of Python for n > 0 (floor division)
FloorDiv(m, n) == IF m >= 0 THEN m \div n ELSE 0 - ((n - 1 - m) \div n)

\* The seed is a Python int, which has no width; 2**32 - 1 is more than the
\* integers of the model checker hold.  A seed is kept in two limbs as
\* hi * 2**16 + lo with 0 <= lo < 2**16.
Limb == 2^16

Big(n) == [hi |-> FloorDiv(n, Limb), lo |-> n - Limb * FloorDiv(n, Limb)]

\* b + d for a small step d
BigAdd(b, d) ==
    LET lo == b.lo + d
    IN  [hi |-> b.hi + FloorDiv(lo, Limb), lo |-> lo - Limb * FloorDiv(lo, Limb)]

BigLeq(a, b) == a.hi < b.hi \/ (a.hi = b.hi /\ a.lo <= b.lo)

\* The upper end of random.randint(0, 2**32 - 1)
SeedMax == [hi |-> Limb - 1, lo |-> Limb - 1]

Digits == [c \in {"0", "1", "2", "3", "4", "5", "6", "7", "8", "9"} |->
             CASE c = "0" -> 0 [] c = "1" -> 1 [] c = "2" -> 2 [] c = "3" -> 3
               [] c = "4" -> 4 [] c = "5" -> 5 [] c = "6" -> 6 [] c = "7" -> 7
               [] c = "8" -> 8 [] c = "9" -> 9]

RECURSIVE DigitsValue(_, _)
DigitsValue(s, acc) ==
    IF s = <<>> THEN acc
    ELSE DigitsValue(Tail(s), 10 * acc + Digits[Head(s)])

AllDigits(s) == s # <<>> /\ \A i \in DOMAIN s : s[i] \in DOMAIN Digits

\* int(x): an int is itself, a bool is 0 or 1, a string is parsed as an
\* optional sign followed by decimal digits and raises ValueError otherwise.
PyInt(x) ==
    CASE x.t = "int" -> Ok(x.v)
      [] x.t = "bool" -> Ok(IF x.v THEN 1 ELSE 0)
      [] x.t = "str" ->
            IF AllDigits(x.v) THEN Ok(DigitsValue(x.v, 0))
            ELSE IF x.v # <<>> /\ Head(x.v) = "-" /\ AllDigits(Tail(x.v))
                 THEN Ok(0 - DigitsValue(Tail(x.v), 0))
            ELSE IF x.v # <<>> /\ Head(x.v) = "+" /\ AllDigits(Tail(x.v))
                 THEN Ok(DigitsValue(Tail(x.v), 0))
            ELSE Raise("ValueError")

\* float(x), on the integral inputs of the model.
PyFloat(x) == PyInt(x)

UpperCase == <<"A", "B", "C", "D", "E", "F", "G", "H", "I", "J", "K", "L", "M",
               "N", "O", "P", "Q", "R", "S", "T", "U", "V", "W", "X", "Y", "Z">>
LowerCase == <<"a", "b", "c", "d", "e", "f", "g", "h", "i", "j", "k", "l", "m",
               "n", "o", "p", "q", "r", "s", "t", "u", "v", "w", "x", "y", "z">>

LowerChar(c) ==
    IF \E i \in DOMAIN UpperCase : UpperCase[i] = c
    THEN LowerCase[CHOOSE i \in DOMAIN UpperCase : UpperCase[i] = c]
    ELSE c

\* str.lower()
Lower(s) == [i \in DOMAIN s |-> LowerChar(s[i])]

TruthyWords == {<<"y", "e", "s">>, <<"t", "r", "u", "e">>, <<"1">>, <<"y">>,
                <<"o", "n">>}

\* params.get("enhance_prompt", "no").lower() in ("yes", "true", "1", "y", "on");
\* a value that is no string has no lower().
CoerceEnhance(x) ==
    IF x.t = "str" THEN Ok(Lower(x.v) \in TruthyWords)
    ELSE Raise("AttributeError")

----------------------------------------------------------------------------
(* Configuration *)

\* InfiniteFlux2Config(), without reference_images and prompt_guidance_doc,
\* which nothing assigns while streams run
DefaultCfg ==
    [prompt |-> "abstract watercolor sunset",
     height |-> 1024,
     width |-> 1024,
     steps |-> 28,
     guidance_scale |-> 4,
     seed |-> Big(42),
     seed_adjustment |-> "increment",
     enhance_prompt |-> FALSE,
     enhance_guidance |-> "none",
     processed_reference_images |-> None]

\* The assignments of update_params, in the order of the code.
UpdateOrder == <<"height", "width", "prompt", "steps", "guidance_scale", "seed",
                 "seed_adjustment", "enhance_prompt", "enhance_guidance",
                 "processed_reference_images">>

\* The fields copy.deepcopy reads, in the order of the dataclass.
CopyOrder == <<"prompt", "height", "width", "steps", "guidance_scale", "seed",
               "seed_adjustment", "enhance_prompt", "enhance_guidance",
               "processed_reference_images">>

\* if "params" in params: params = params["params"]
Unwrap(p) == IF "params" \in DOMAIN p THEN p.params ELSE p

Has(p, f) == f \in DOMAIN p

\* An update_params that stores preprocessed images instead of clearing them
DerivedComputed(c) == "images"

\* self.cfg.processed_reference_images = None, the last assignment of
\* update_params
DerivedAfterUpdate(c) == None

\* The right-hand side of the assignment to field f, for the parameters p and
\* the configuration c: Ok(value) or Raise(exception).
FieldValue(c, p, f) ==
    CASE f = "height" -> IF Has(p, f) THEN PyInt(p[f]) ELSE Ok(c.height)
      [] f = "width" -> IF Has(p, f) THEN PyInt(p[f]) ELSE Ok(c.width)
      [] f = "prompt" -> Ok(IF Has(p, f) THEN p[f] ELSE c.prompt)
      [] f = "steps" -> IF Has(p, f) THEN PyInt(p[f]) ELSE Ok(c.steps)
      [] f = "guidance_scale" ->
            IF Has(p, f) THEN PyFloat(p[f]) ELSE Ok(c.guidance_scale)
      [] f = "seed" ->
            IF Has(p, f)
            THEN LET r == PyInt(p[f]) IN IF r.ok THEN Ok(Big(r.v)) ELSE r
            ELSE Ok(c.seed)
      [] f = "seed_adjustment" ->
            Ok(IF Has(p, f) THEN p[f] ELSE c.seed_adjustment)
      [] f = "enhance_prompt" ->
            CoerceEnhance(IF Has(p, f) THEN p[f] ELSE StrV(<<"n", "o">>))
      [] f = "enhance_guidance" ->
            Ok(IF Has(p, f) THEN p[f] ELSE c.enhance_guidance)
      [] f = "processed_reference_images" -> Ok(DerivedAfterUpdate(c))

\* An assignment that raises, or that changes the configuration.
Effective(c, p, i) ==
    LET r == FieldValue(c, p, UpdateOrder[i])
    IN  ~r.ok \/ r.v # c[UpdateOrder[i]]

\* The next assignment at or after i that is visible to another thread;
\* Len(UpdateOrder) + 1 when the rest of update_params changes nothing.
NextEffective(c, p, i) ==
    LET S == {k \in i..Len(UpdateOrder) : Effective(c, p, k)}
    IN  IF S = {} THEN Len(UpdateOrder) + 1
        ELSE CHOOSE k \in S : \A m \in S : k <= m

----------------------------------------------------------------------------
(* Frames *)

NoFrame == [kind |-> "none", height |-> 0, width |-> 0, job |-> 0]

Placeholder(h, w) == [kind |-> "placeholder", height |-> h, width |-> w, job |-> 0]

\* pil_to_bhwc(image) of the image job j produced from its snapshot
ImageOf(j, snap) ==
    [kind |-> "image", height |-> snap.height, width |-> snap.width, job |-> j]

\* create_placeholder_frame: Image.new fails on a negative size, and the
\* square count divides by square_size.
CreatePlaceholder(c) ==
    LET square_size == FloorDiv(IF c.width < c.height THEN c.width ELSE c.height,
                                target_squares_per_dim)
    IN  IF c.width < 0 \/ c.height < 0 THEN Raise("ValueError")
        ELSE IF square_size = 0 THEN Raise("ZeroDivisionError")
        ELSE Ok(Placeholder(c.height, c.width))

----------------------------------------------------------------------------
(* Inputs of the handlers *)

EmptyParams == <<>>

StartMenu == {EmptyParams,
              [enhance_prompt |-> StrV(<<"y", "e", "s">>)]}

UpdateMenu == {[height |-> IntV(512)],
               [enhance_prompt |-> StrV(<<"O", "n">>), enhance_guidance |-> "vivid"]}

\* Sizes for on_start: both dimensions, and the height alone
SizeMenu == {[height |-> IntV(512), width |-> IntV(768)],
             [height |-> IntV(256)]}

\* Parameters for on_start: none, a toggle, a height below the number of
\* squares of the placeholder
ParamStartMenu == {EmptyParams,
                   [enhance_prompt |-> StrV(<<"y", "e", "s">>)],
                   [height |-> IntV(8)]}

\* Parameters for update_params: a width that is no number after a valid
\* height, toggles given as a boolean, as text in upper case and as another
\* text, a field alone, parameters wrapped in "params", and a height of zero
ParamMenu == {[height |-> IntV(512), width |-> StrV(<<"w", "i", "d", "e">>)],
              [height |-> IntV(0)],
              [enhance_prompt |-> BoolV(TRUE)],
              [enhance_prompt |-> StrV(<<"T", "R", "U", "E">>)],
              [enhance_prompt |-> StrV(<<"m", "a", "y", "b", "e">>)],
              [steps |-> IntV(4)],
              [params |-> [width |-> StrV(<<"6", "4", "0">>)]]}

\* Parameters for update_params that supply a seed, alone and after a number
\* of steps
SeedMenu == {[seed |-> IntV(7)],
             [steps |-> IntV(4), seed |-> IntV(9)]}

\* The seed policies: the three the generator knows, "fixed", and a value it
\* does not know
PolicyMenu == {[seed_adjustment |-> pol] :
                  pol \in {"increment", "decrement", "random", "fixed", "shuffle"}}

\* random.randint(0, 2**32 - 1): the two ends of the range
RandomDraws == {Big(0), SeedMax}

\* The fields that can change while a thread copies the configuration, when
\* update_params is called with parameters of the set M: those the parameters
\* name, enhance_prompt, which every call assigns, and the seed, which the
\* generator advances.
WrittenFields(M) ==
    UNION {DOMAIN Unwrap(p) : p \in M} \cup {"enhance_prompt", "seed"}

----------------------------------------------------------------------------
(* Tasks and threads *)

NoTask == [pc |-> "none", job |-> 0, video_frame |-> -1]

BlankSnap ==
    [prompt |-> "", height |-> 0, width |-> 0, steps |-> 0, guidance_scale |-> 0,
     seed |-> Big(0), seed_adjustment |-> "", enhance_prompt |-> FALSE,
     enhance_guidance |-> "", processed_reference_images |-> ""]

\* A thread running _run_inference_with_callback; it is an orphan once the
\* session that spawned it is over.
NewJob ==
    [pc |-> "spawned", orphan |-> FALSE, snap |-> BlankSnap, idx |-> 1,
     guidance |-> "", polls |-> 0, outcome |-> "running"]

\* The record of an inference that ended: its outcome, whether the generator
\* received it, and how often the seed policy was applied for it.
Ended(j, o, d, n) ==
    [job |-> j, outcome |-> o, delivered |-> d, applied |-> n]

NoneEnded == Ended(0, "none", FALSE, 0)

\* f without the element j of its domain
Without(f, j) == [k \in DOMAIN f \ {j} |-> f[k]]

\* f with the new element j
With(f, j, v) == [k \in DOMAIN f \cup {j} |-> IF k = j THEN v ELSE f[k]]

\* on_stop is not running
StopIdle == [pc |-> "idle", waited |-> 0, job |-> 0, polls |-> 0, good |-> 0]

NoCall == [op |-> "none", params |-> EmptyParams, idx |-> 0]

\* The thread of job j is inside _run_inference_with_callback.
Executing(j) == jobs[j].pc \in {"copy", "clear", "enhance", "pipe", "finally", "set"}

\* The thread of job j is inside the engine (self.pipe).
InEngine(j) == jobs[j].pc = "pipe"

\* An inference that is called on the event loop and holds it until it ends
HeldByRunningJob(js) == {j \in DOMAIN js : js[j].pc # "returned"}

\* The jobs that hold the event loop: none, asyncio.to_thread runs the
\* inference in a thread of the executor.
LoopHeldBy(js) == {}

\* The event loop is free for a task or a handler: it is not inside a handler
\* that does not await, and no job holds it.
LoopFree == call.op = "none" /\ LoopHeldBy(jobs) = {}

loadVars == <<runner_ready>>
flagVars == <<inference_in_progress, inference_count, inference_completed_event>>
timingVars == <<frame_timestamp, timestamp_increment>>
frameVars == <<placeholder_frame, current_frame>>
taskVars == <<background_tasks, sender, generator>>
jobVars == <<jobs, njobs, ended>>
callVars == <<result, updates>>

\* A row of payment_sessions that was not read
NoRow == [status |-> "none", total_debited |-> 0, payment_count |-> 0,
          expires_at |-> 0, offset |-> FALSE]

\* An endpoint that is not running
Idle == [op |-> "none", pc |-> "idle", session_id |-> 0, payment_id |-> "",
         amount |-> 0, balance |-> 0, session |-> NoRow, status |-> 0]

\* server.py before any request: the user registered with credit_balance 0
\* (line 675), the other tables empty, no endpoint running
ServerInit ==
    /\ credit_balance = 0
    /\ credit_transactions = <<>>
    /\ payment_sessions = <<>>
    /\ session_payments = <<>>
    /\ utcnow = 0
    /\ handlers = [r \in Slots |-> Idle]
    /\ requests = [deposit |-> 0, session |-> 0, webhook |-> 0, close |-> 0]

Init ==
    /\ cfg = DefaultCfg
    /\ runner_ready = FALSE
    /\ background_tasks = <<>>
    /\ inference_lock = "free"
    /\ inference_in_progress = FALSE
    /\ inference_count = 0
    /\ interrupt_requested = FALSE
    /\ inference_completed_event = FALSE
    /\ frame_queue = <<>>
    /\ frame_timestamp = 0
    /\ timestamp_increment = FloorDiv(time_base, fps)
    /\ placeholder_frame = NoFrame
    /\ current_frame = NoFrame
    /\ stop_event = FALSE
    /\ sender = NoTask
    /\ generator = NoTask
    /\ jobs = <<>>
    /\ njobs = 0
    /\ ended = NoneEnded
    /\ good = 0
    /\ call = NoCall
    /\ stop = StopIdle
    /\ streaming = FALSE
    /\ sink = <<>>
    /\ result = [start |-> "none", stop |-> "none", update |-> "none"]
    /\ updates = [n |-> 0, params |-> EmptyParams, during |-> 0,
                  before |-> DefaultCfg]
    /\ ServerInit

----------------------------------------------------------------------------
(* load *)

\* load(): the model is loaded, the placeholder created, the ready flag set.
Load ==
    /\ LoopFree /\ ~runner_ready
    /\ placeholder_frame' = CreatePlaceholder(cfg).v
    /\ runner_ready' = TRUE
    /\ UNCHANGED <<cfg, inference_lock, interrupt_requested, frame_queue,
                   current_frame, stop_event, call, stop, streaming, sink, good,
                   flagVars, timingVars, taskVars, jobVars, callVars>>
    /\ UNCHANGED serverVars

----------------------------------------------------------------------------
(* update_params *)

\* An update_params whose assignment does not reach the configuration
AssignNothing(c, p, i) == c

\* The configuration after the assignment at index i of update_params.
Assign(c, p, i) ==
    [c EXCEPT ![UpdateOrder[i]] = FieldValue(c, p, UpdateOrder[i]).v]

\* An on_start that leaves the Frame Holder as the last session left it
KeepFrame(old, ph) == old

\* The Frame Holder on_start leaves: the placeholder it has just created.
StartFrame(old, ph) == ph

\* An on_start that does not reset the output timestamp
KeepTimestamp(old) == old

\* The output timestamp on_start leaves.
StartTimestamp(old) == 0

\* What on_start does once update_params has returned: the placeholder, the
\* Frame Holder, the two tasks, the timing state.  The stream has a new
\* client, whose stop_event is not set.
StartBody(c) ==
    LET ph == CreatePlaceholder(c)
    IN  IF ph.ok
        THEN /\ placeholder_frame' = ph.v
             /\ current_frame' = StartFrame(current_frame, ph.v)
             /\ background_tasks' = background_tasks \o <<"sender", "generator">>
             /\ sender' = [NoTask EXCEPT !.pc = "run"]
             /\ generator' = [NoTask EXCEPT !.pc = "top"]
             /\ frame_timestamp' = StartTimestamp(frame_timestamp)
             /\ timestamp_increment' = FloorDiv(time_base, fps)
             /\ stop_event' = FALSE
             /\ streaming' = TRUE
             /\ sink' = <<>>
             /\ good' = 0
             /\ result' = [result EXCEPT !.start = "ok"]
        ELSE /\ result' = [result EXCEPT !.start = ph.v]
             /\ UNCHANGED <<stop_event, streaming, sink, good, frameVars, taskVars,
                            timingVars>>

\* The handler that called update_params goes on: on_start with its body,
\* the parameter update returns.
AfterUpdate(op, c) ==
    IF op = "start" THEN StartBody(c)
    ELSE /\ result' = [result EXCEPT !.update = "ok"]
         /\ UNCHANGED <<stop_event, streaming, sink, good, frameVars, taskVars,
                        timingVars>>

\* update_params raised: the exception goes to the caller (on_start logs and
\* re-raises it).
UpdateRaised(op, e) ==
    /\ result' = IF op = "start" THEN [result EXCEPT !.start = e]
                 ELSE [result EXCEPT !.update = e]
    /\ UNCHANGED <<stop_event, streaming, sink, good, frameVars, taskVars,
                   timingVars>>

\* The assignments of update_params from index i on, up to and including the
\* next one another thread can see; the call ends when none is left.
RunUpdate(op, p, i) ==
    LET k == NextEffective(cfg, p, i)
    IN  IF k > Len(UpdateOrder)
        THEN /\ cfg' = cfg
             /\ call' = NoCall
             /\ AfterUpdate(op, cfg)
        ELSE LET r == FieldValue(cfg, p, UpdateOrder[k])
                 n == IF r.ok THEN NextEffective(Assign(cfg, p, k), p, k + 1)
                      ELSE 0
             IN  IF ~r.ok
                 THEN /\ cfg' = cfg
                      /\ call' = NoCall
                      /\ UpdateRaised(op, r.v)
                 ELSE /\ cfg' = Assign(cfg, p, k)
                      /\ IF n > Len(UpdateOrder)
                         THEN /\ call' = NoCall
                              /\ AfterUpdate(op, cfg')
                         ELSE /\ call' = [op |-> op, params |-> p, idx |-> n]
                              /\ UNCHANGED <<stop_event, streaming, sink, good, result,
                                             frameVars, taskVars, timingVars>>

\* update_params(params), called by the hosting runtime
UpdateParams(params) ==
    /\ LoopFree /\ runner_ready
    /\ updates' = [n |-> updates.n + 1, params |-> Unwrap(params),
                    during |-> generator.job, before |-> cfg]
    /\ RunUpdate("update", Unwrap(params), 1)
    /\ UNCHANGED <<inference_lock, interrupt_requested, frame_queue, stop,
                   loadVars, flagVars, jobVars>>
    /\ UNCHANGED serverVars

\* update_params goes on while the inference threads run
UpdateStep ==
    /\ call.op # "none"
    /\ RunUpdate(call.op, call.params, call.idx)
    /\ UNCHANGED <<inference_lock, interrupt_requested, frame_queue, stop,
                   updates, loadVars, flagVars, jobVars>>
    /\ UNCHANGED serverVars

----------------------------------------------------------------------------
(* on_start *)

\* on_start(params) with the runner ready: update_params, then the body
StartReady(params) ==
    /\ RunUpdate("start", Unwrap(params), 1)
    /\ UNCHANGED <<inference_lock, interrupt_requested, frame_queue, stop,
                   loadVars, flagVars, jobVars>>
    /\ UNCHANGED serverVars

\* An on_start that goes on without the readiness check
StartUnchecked == StartReady(EmptyParams)

\* on_start(params) while the runner is not ready: RuntimeError
StartNotReady ==
    /\ result' = [result EXCEPT !.start = "RuntimeError"]
    /\ UNCHANGED <<cfg, inference_lock, interrupt_requested, frame_queue,
                   stop_event, call, stop, streaming, sink, good, loadVars, flagVars,
                   timingVars, frameVars, taskVars, jobVars>>
    /\ UNCHANGED serverVars

\* on_start(params), called by the hosting runtime for a new stream
OnStart(params) ==
    /\ LoopFree
    /\ ~streaming /\ stop.pc = "idle"
    /\ updates' = updates
    /\ IF runner_ready THEN StartReady(params) ELSE StartNotReady

\* The hosting runtime ends the stream: the client's stop_event is set.
ClientStop ==
    /\ LoopFree
    /\ streaming /\ ~stop_event
    /\ stop_event' = TRUE
    /\ UNCHANGED <<cfg, inference_lock, interrupt_requested, frame_queue, call,
                   stop, streaming, sink, good, loadVars, flagVars, timingVars,
                   frameVars, taskVars, jobVars, callVars>>
    /\ UNCHANGED serverVars

----------------------------------------------------------------------------
(* on_stop *)

\* A cancellation that does not reach the task
Uncancelled(task) == task

\* A cancellation that takes a task for running whatever its state
CancelAny(task) == [NoTask EXCEPT !.pc = "cancelled"]

\* task.cancel() for a task that is not done
Cancelled(task) ==
    IF task.pc \in {"none", "done", "cancelled"} THEN task
    ELSE [NoTask EXCEPT !.pc = "cancelled"]

\* A wait for the completion event that has no timeout
WaitForever(pc, waited) == IF pc = "woken" THEN "ok" ELSE "no"

\* How the wait of on_stop for the completion event can end: by the event,
\* or by the timeout once the grace period is over.
WaitEnds(pc, waited) ==
    CASE pc = "woken" -> "ok"
      [] pc = "waiting" /\ waited >= GracePeriod -> "timeout"
      [] OTHER -> "no"

\* on_stop after the wait: the queue is emptied, every task of
\* background_tasks is cancelled (the cancelled generator leaves its
\* "async with" and so releases the lock), the list is cleared.
Teardown(how) ==
    /\ frame_queue' = <<>>
    /\ sender' = Cancelled(sender)
    /\ generator' = Cancelled(generator)
    /\ inference_lock' = IF generator'.pc = "cancelled" THEN "free"
                         ELSE inference_lock
    /\ background_tasks' = <<>>
    /\ streaming' = FALSE
    /\ jobs' = [j \in DOMAIN jobs |-> [jobs[j] EXCEPT !.orphan = TRUE]]
    /\ stop' = StopIdle
    /\ result' = [result EXCEPT !.stop = how]

\* The inference the generator awaits and whose thread is inside
\* _run_inference_with_callback; 0 when there is none
Awaited ==
    IF /\ generator.pc = "await"
       /\ generator.job \in DOMAIN jobs
       /\ Executing(generator.job)
    THEN generator.job
    ELSE 0

\* on_stop(): the interrupt flag, then the wait for a running inference
StopBegin ==
    /\ LoopFree /\ stop.pc = "idle"
    /\ interrupt_requested' = TRUE
    /\ IF inference_in_progress
       THEN /\ stop' = [pc |-> IF inference_completed_event THEN "woken"
                               ELSE "waiting",
                        waited |-> 0,
                        job |-> Awaited,
                        polls |-> IF Awaited = 0 THEN 0 ELSE jobs[Awaited].polls,
                        good |-> good]
            /\ result' = [result EXCEPT !.stop = "pending"]
            /\ UNCHANGED <<frame_queue, inference_lock, streaming, jobs,
                           taskVars>>
       ELSE Teardown("ok")
    /\ UNCHANGED <<cfg, stop_event, call, sink, good, updates, njobs, ended,
                   loadVars, flagVars, timingVars, frameVars>>
    /\ UNCHANGED serverVars

\* Time passes while on_stop waits in asyncio.wait_for, until the timeout.
Tick ==
    /\ stop.pc = "waiting" /\ stop.waited < GracePeriod
    /\ stop' = [stop EXCEPT !.waited = GracePeriod]
    /\ UNCHANGED <<cfg, inference_lock, interrupt_requested, frame_queue,
                   stop_event, call, streaming, sink, good, loadVars, flagVars,
                   timingVars, frameVars, taskVars, jobVars, callVars>>
    /\ UNCHANGED serverVars

\* The wait of on_stop ends: the event was set, or the timeout expired
\* (asyncio.TimeoutError, logged).
StopResume ==
    /\ LoopFree
    /\ WaitEnds(stop.pc, stop.waited) # "no"
    /\ Teardown(WaitEnds(stop.pc, stop.waited))
    /\ UNCHANGED <<cfg, interrupt_requested, stop_event, call, sink, good,
                   updates, njobs, ended, loadVars, flagVars, timingVars,
                   frameVars>>
    /\ UNCHANGED serverVars

----------------------------------------------------------------------------
(* _generate_images_for_video *)

\* A seed update whose "decrement" branch adds like the "increment" branch
AdvanceSeedUp(policy, seed, r) ==
    CASE policy \in {"increment", "decrement"} -> BigAdd(seed, 1)
      [] policy = "random" -> r
      [] OTHER -> seed

\* The seed update after an inference, by self.cfg.seed_adjustment; r is the
\* value random.randint draws.
AdvanceSeed(policy, seed, r) ==
    CASE policy = "increment" -> BigAdd(seed, 1)
      [] policy = "decrement" -> BigAdd(seed, -1)
      [] policy = "random" -> r
      [] OTHER -> seed

\* A generator that applies the seed policy whatever the thread returned
SeedAfterAlways(outcome, c, r) == AdvanceSeed(c.seed_adjustment, c.seed, r)

\* The seed the generator leaves after the await of the inference thread: the
\* statements after the await run only when the thread returned an image.
SeedAfter(outcome, c, r) ==
    IF outcome = "success" THEN AdvanceSeed(c.seed_adjustment, c.seed, r)
    ELSE c.seed

\* A generator that publishes whatever the thread left
FrameAfterAny(outcome, frame, image) == image

\* The Frame Holder the generator leaves after the await.
FrameAfter(outcome, frame, image) ==
    IF outcome = "success" THEN image ELSE frame

\* A generator whose loop ends when the thread raises
DiesOnFailure(outcome) == IF outcome = "success" THEN "sleep" ELSE "done"

\* Where the generator goes on after the await: to sleep(0.1) after an image,
\* to the except branch with its sleep(1.0) after an exception.
AfterAwait(outcome) == IF outcome = "success" THEN "sleep" ELSE "backoff"

\* The lock lets the generator in: async with self.inference_lock
LockFree(lock) == lock = "free"

\* Top of the loop: the stop_event check, the interrupt flag reset, the lock,
\* asyncio.to_thread(self._run_inference_with_callback).
GenIter ==
    /\ LoopFree /\ generator.pc = "top"
    /\ IF stop_event
       THEN /\ generator' = [generator EXCEPT !.pc = "done"]
            /\ UNCHANGED <<interrupt_requested, inference_lock, jobs, njobs>>
       ELSE /\ LockFree(inference_lock)
            /\ interrupt_requested' = FALSE
            /\ inference_lock' = "generator"
            /\ njobs' = njobs + 1
            /\ jobs' = With(jobs, njobs', NewJob)
            /\ generator' = [generator EXCEPT !.pc = "await", !.job = njobs']
    /\ UNCHANGED <<cfg, frame_queue, stop_event, call, stop, streaming, sink, good,
                   ended, background_tasks, sender, loadVars, flagVars, timingVars,
                   frameVars, callVars>>
    /\ UNCHANGED serverVars

\* The thread has returned or raised: the seed and the Frame Holder on an
\* image, the except branch (sleep 1.0) on an exception; the lock is released.
GenResume ==
    /\ LoopFree /\ generator.pc = "await"
    /\ generator.job \in DOMAIN jobs
    /\ jobs[generator.job].pc = "returned"
    /\ LET j == generator.job
           o == jobs[j].outcome
       IN  /\ \E r \in RandomDraws :
                cfg' = [cfg EXCEPT !.seed = SeedAfter(o, cfg, r)]
           /\ current_frame' = FrameAfter(o, current_frame, ImageOf(j, jobs[j].snap))
           /\ generator' = [generator EXCEPT
                              !.pc = AfterAwait(o),
                              !.job = 0]
           /\ jobs' = Without(jobs, j)
           /\ ended' = Ended(j, o, TRUE, IF o = "success" THEN 1 ELSE 0)
           /\ good' = IF o = "success" THEN j ELSE good
    /\ inference_lock' = "free"
    /\ UNCHANGED <<interrupt_requested, frame_queue, placeholder_frame, stop_event,
                   call, stop, streaming, sink, njobs, background_tasks, sender,
                   loadVars, flagVars, timingVars, callVars>>
    /\ UNCHANGED serverVars

\* A sleep of the generator ends: sleep(1.0) of the except branch is followed
\* by sleep(0.1), and that by the next iteration.  A wait of on_stop that has
\* been woken runs before any sleep started after it ends.
GenWake ==
    /\ LoopFree /\ stop.pc # "woken"
    /\ generator.pc \in {"backoff", "sleep"}
    /\ generator' = [generator EXCEPT
                       !.pc = IF generator.pc = "backoff" THEN "sleep" ELSE "top"]
    /\ UNCHANGED <<cfg, inference_lock, interrupt_requested, frame_queue,
                   stop_event, call, stop, streaming, sink, good, background_tasks,
                   sender, loadVars, flagVars, timingVars, frameVars, jobVars,
                   callVars>>
    /\ UNCHANGED serverVars

----------------------------------------------------------------------------
(* _run_inference_with_callback, in its thread *)

threadUnchanged ==
    <<serverVars, cfg, inference_lock, interrupt_requested, frame_queue, stop_event, call,
      streaming, sink, good, njobs, loadVars, timingVars, frameVars, taskVars,
      callVars>>

\* self.inference_in_progress = True; self.inference_count += 1
ThreadBegin(j) ==
    /\ jobs[j].pc = "spawned"
    /\ inference_in_progress' = TRUE
    /\ inference_count' = inference_count + 1
    /\ jobs' = [jobs EXCEPT ![j].pc = "copy"]
    /\ UNCHANGED <<inference_completed_event, stop, ended>>
    /\ UNCHANGED threadUnchanged

\* The last field deepcopy reads, from field i on, before it comes to a field
\* of W: one that an update_params call can change meanwhile.
CopyEnd(i, W) ==
    LET S == {k \in i..Len(CopyOrder) :
                 k = Len(CopyOrder) \/ CopyOrder[k + 1] \in W}
    IN  CHOOSE k \in S : \A m \in S : k <= m

\* The snapshot with the fields i..k read from the configuration c
CopyFields(snap, c, i, k) ==
    [f \in DOMAIN snap |->
        IF \E m \in i..k : CopyOrder[m] = f THEN c[f] ELSE snap[f]]

\* cfg = copy.deepcopy(self.cfg), field by field in the order of the dataclass
ThreadCopy(j, W) ==
    /\ jobs[j].pc = "copy"
    /\ LET i == jobs[j].idx
           k == CopyEnd(i, W)
       IN  jobs' = [jobs EXCEPT
                      ![j].snap = CopyFields(@, cfg, i, k),
                      ![j].idx = IF k = Len(CopyOrder) THEN 1 ELSE k + 1,
                      ![j].pc = IF k = Len(CopyOrder) THEN "clear" ELSE "copy"]
    /\ UNCHANGED <<flagVars, stop, ended>>
    /\ UNCHANGED threadUnchanged

\* self.inference_completed_event.clear()
ThreadClear(j) ==
    /\ jobs[j].pc = "clear"
    /\ inference_completed_event' = FALSE
    /\ jobs' = [jobs EXCEPT
                  ![j].pc = IF jobs[j].snap.enhance_prompt THEN "enhance"
                            ELSE "pipe"]
    /\ UNCHANGED <<inference_in_progress, inference_count, stop, ended>>
    /\ UNCHANGED threadUnchanged

\* The enhancement guidance enhance_prompt() puts into its instruction: the
\* one of self.cfg.
GuidanceRead(c, snap) == c.enhance_guidance

\* prompt = self.enhance_prompt(cfg.prompt): the instruction is built, the
\* text encoder generates; or the generation raises.
ThreadEnhance(j) ==
    /\ jobs[j].pc = "enhance"
    /\ \/ jobs' = [jobs EXCEPT ![j].guidance = GuidanceRead(cfg, jobs[j].snap),
                               ![j].pc = "pipe"]
       \/ jobs' = [jobs EXCEPT ![j].guidance = GuidanceRead(cfg, jobs[j].snap),
                               ![j].outcome = "failed",
                               ![j].pc = "finally"]
    /\ UNCHANGED <<flagVars, stop, ended>>
    /\ UNCHANGED threadUnchanged

\* A callback that never sets pipeline._interrupt
NoInterrupt(flag) == FALSE

\* interrupt_callback at the end of a step: pipeline._interrupt = True when
\* the flag is set.
InterruptCallback(flag) == flag

\* self.pipe(...): one denoising step ends and the callback runs.  With
\* _interrupt set the engine stops and the call ends with the exception that
\* the except branch reports as an interruption; otherwise the engine goes on
\* to the next step, or this was the last step and the image is returned.
ThreadStep(j, maxPolls) ==
    /\ jobs[j].pc = "pipe"
    /\ IF InterruptCallback(interrupt_requested)
       THEN jobs' = [jobs EXCEPT ![j].polls = @ + 1,
                                 ![j].outcome = "interrupted",
                                 ![j].pc = "finally"]
       ELSE \/ /\ jobs[j].polls + 1 < maxPolls
               /\ jobs' = [jobs EXCEPT ![j].polls = @ + 1]
            \/ jobs' = [jobs EXCEPT ![j].polls = @ + 1,
                                    ![j].outcome = "success",
                                    ![j].pc = "finally"]
    /\ UNCHANGED <<flagVars, stop, ended>>
    /\ UNCHANGED threadUnchanged

\* self.pipe(...) raises for another reason than an interruption
ThreadFail(j) ==
    /\ jobs[j].pc = "pipe"
    /\ jobs' = [jobs EXCEPT ![j].outcome = "failed", ![j].pc = "finally"]
    /\ UNCHANGED <<flagVars, stop, ended>>
    /\ UNCHANGED threadUnchanged

\* A flag that is reset at the end of the try block, not in finally
ResetAfterImage(outcome) == outcome # "success"

\* The in-progress flag the finally block leaves: False, whatever the outcome
InProgressAfter(outcome) == FALSE

\* finally: self.inference_in_progress = False
ThreadFinally(j) ==
    /\ jobs[j].pc = "finally"
    /\ inference_in_progress' = InProgressAfter(jobs[j].outcome)
    /\ jobs' = [jobs EXCEPT ![j].pc = "set"]
    /\ UNCHANGED <<inference_count, inference_completed_event, stop, ended>>
    /\ UNCHANGED threadUnchanged

\* finally: self.inference_completed_event.set(), which wakes a waiting
\* on_stop; the thread ends, and its result goes to the generator that
\* awaits it, if that was not cancelled.
ThreadSet(j) ==
    /\ jobs[j].pc = "set"
    /\ inference_completed_event' = TRUE
    /\ stop' = IF stop.pc = "waiting" THEN [stop EXCEPT !.pc = "woken"] ELSE stop
    /\ IF generator.pc = "await" /\ generator.job = j
       THEN /\ jobs' = [jobs EXCEPT ![j].pc = "returned"]
            /\ ended' = ended
       ELSE /\ jobs' = Without(jobs, j)
            /\ ended' = Ended(j, jobs[j].outcome, FALSE, 0)
    /\ UNCHANGED <<inference_in_progress, inference_count>>
    /\ UNCHANGED threadUnchanged

----------------------------------------------------------------------------
(* _send_frames *)

VideoFrame(ts) == [kind |-> "video", timestamp |-> ts, time_base |-> time_base]

AudioFrame(ts) == [kind |-> "audio", timestamp |-> ts, time_base |-> time_base]

IsVideo(f) == f.kind = "video"

Videos(q) == SelectSeq(q, IsVideo)

\* A sender that does not look at the stop_event
StopUnseen(event) == FALSE

\* if ...current_client.stop_event.is_set(): break, at the top of the loop of
\* _send_frames
StopSeen(event) == event

\* Top of the loop: the stop_event check; the video frame of the Frame Holder
\* with the current timestamp, the timestamp increment, send_input_frame.
SendTick ==
    /\ LoopFree /\ sender.pc = "run"
    /\ IF StopSeen(stop_event)
       THEN /\ sender' = [sender EXCEPT !.pc = "done"]
            /\ UNCHANGED <<sink, frame_timestamp>>
       ELSE /\ sink' = Append(sink, VideoFrame(frame_timestamp))
            /\ frame_timestamp' = frame_timestamp + timestamp_increment
            /\ sender' = [sender EXCEPT !.pc = "audio",
                                        !.video_frame = frame_timestamp]
    /\ UNCHANGED <<cfg, inference_lock, interrupt_requested, frame_queue,
                   timestamp_increment, stop_event, call, stop, streaming, good,
                   background_tasks, generator, loadVars, flagVars, frameVars,
                   jobVars, callVars>>
    /\ UNCHANGED serverVars

\* An audio frame stamped with the output timestamp at the time it is sent
AudioStampNow(video_ts, now) == now

\* timestamp=video_frame.timestamp: the silent audio frame has the timestamp
\* of the video frame it follows.
AudioStamp(video_ts, now) == video_ts

\* The video frame is sent: the silent audio frame with its timestamp, then
\* the sleep.
SendAudio ==
    /\ LoopFree /\ sender.pc = "audio"
    /\ sink' = IF no_audio_in_stream
               THEN Append(sink, AudioFrame(AudioStamp(sender.video_frame,
                                                       frame_timestamp)))
               ELSE sink
    /\ sender' = [sender EXCEPT !.pc = "sleep", !.video_frame = -1]
    /\ UNCHANGED <<cfg, inference_lock, interrupt_requested, frame_queue,
                   stop_event, call, stop, streaming, good, background_tasks,
                   generator, loadVars, flagVars, timingVars, frameVars, jobVars,
                   callVars>>
    /\ UNCHANGED serverVars

\* asyncio.sleep(sleep_duration) ends
SendWake ==
    /\ LoopFree /\ sender.pc = "sleep"
    /\ sender' = [sender EXCEPT !.pc = "run"]
    /\ UNCHANGED <<cfg, inference_lock, interrupt_requested, frame_queue,
                   stop_event, call, stop, streaming, sink, good, background_tasks,
                   generator, loadVars, flagVars, timingVars, frameVars, jobVars,
                   callVars>>
    /\ UNCHANGED serverVars

----------------------------------------------------------------------------
(* server.py: the payment gateway.  Amounts are whole numbers of the smallest
   unit of credit, chosen so that the fee is a whole number too; times are
   minutes.  The endpoints are coroutines on one event loop (uvicorn.run,
   line 1023) and the database client blocks: between the reading of a
   request and its response no endpoint awaits anything that suspends it. *)

\* A server that has several requests in hand at once
LoopShared(hs) == FALSE

\* The event loop is executing an endpoint.
LoopTaken(hs) == \E r \in Slots : hs[r].pc # "idle"

\* A request is taken by the first slot that is not running an endpoint.
Takes(r) ==
    /\ handlers[r].pc = "idle"
    /\ \A q \in Slots : q < r => handlers[q].pc # "idle"

\* The endpoint of slot r goes on to pc, or ends with a status code.
GoOn(r, h, pc) == handlers' = [handlers EXCEPT ![r] = [h EXCEPT !.pc = pc]]
Respond(r, status) ==
    handlers' = [handlers EXCEPT
                   ![r] = [Idle EXCEPT !.op = handlers[r].op, !.status = status]]

\* A split that leaves the fee out of the total
SplitWithoutFee(payment_amount) ==
    [usage_amount |-> payment_amount,
     fee_amount |-> (payment_amount * FEE_PERCENTAGE) \div 100,
     total_amount |-> payment_amount]

\* X402PaymentService.calculate_payment_split
calculate_payment_split(payment_amount) ==
    [usage_amount |-> payment_amount,
     fee_amount |-> (payment_amount * FEE_PERCENTAGE) \div 100,
     total_amount |-> payment_amount + (payment_amount * FEE_PERCENTAGE) \div 100]

\* POST /api/credits/deposit: add_credits reads the balance.
DepositCredits(r, amount_usdc) ==
    /\ ~LoopTaken(handlers) /\ Takes(r) /\ requests.deposit < MaxDeposits
    /\ requests' = [requests EXCEPT !.deposit = @ + 1]
    /\ handlers' = [handlers EXCEPT ![r] =
                      [Idle EXCEPT !.op = "deposit", !.pc = "add_update",
                                   !.amount = amount_usdc,
                                   !.balance = credit_balance]]
    /\ UNCHANGED <<credit_balance, credit_transactions, payment_sessions,
                   session_payments, utcnow>>
    /\ UNCHANGED workerVars

\* add_credits: new_balance = current_balance + amount, written to users
AddUpdate(r) ==
    /\ handlers[r].pc = "add_update"
    /\ credit_balance' = handlers[r].balance + handlers[r].amount
    /\ GoOn(r, [handlers[r] EXCEPT !.balance = credit_balance'], "add_insert")
    /\ UNCHANGED <<credit_transactions, payment_sessions, session_payments,
                   utcnow, requests>>
    /\ UNCHANGED workerVars

\* add_credits: the transaction is recorded; the deposit is confirmed.
AddInsert(r) ==
    /\ handlers[r].pc = "add_insert"
    /\ credit_transactions' =
           Append(credit_transactions,
                  [transaction_type |-> "credit", amount |-> handlers[r].amount,
                   balance_after |-> handlers[r].balance,
                   reference_id |-> "deposit"])
    /\ Respond(r, 200)
    /\ UNCHANGED <<credit_balance, payment_sessions, session_payments, utcnow,
                   requests>>
    /\ UNCHANGED workerVars

\* POST /api/sessions/create: SessionService.create_session.  The column is
\* declared TIMESTAMPTZ and no code creates the table: the database gives
\* expires_at back with its UTC offset, or as the text that was written.
CreateSession ==
    /\ ~LoopTaken(handlers) /\ requests.session < MaxSessions
    /\ requests' = [requests EXCEPT !.session = @ + 1]
    /\ \E offset \in BOOLEAN :
          payment_sessions' =
              Append(payment_sessions,
                     [status |-> "active", total_debited |-> 0,
                      payment_count |-> 0,
                      expires_at |-> utcnow + SESSION_TIMEOUT_MINUTES,
                      offset |-> offset])
    /\ UNCHANGED <<credit_balance, credit_transactions, session_payments,
                   utcnow, handlers>>
    /\ UNCHANGED workerVars

\* POST /api/sessions/{session_id}/close: get_session and the status check
CloseSession(r, s) ==
    /\ ~LoopTaken(handlers) /\ Takes(r) /\ requests.close < MaxCloses
    /\ requests' = [requests EXCEPT !.close = @ + 1]
    /\ LET h == [Idle EXCEPT !.op = "close", !.session_id = s]
       IN  IF s \notin DOMAIN payment_sessions
           THEN handlers' = [handlers EXCEPT ![r] = [Idle EXCEPT !.op = h.op, !.status = 404]]
           ELSE IF payment_sessions[s].status # "active"
           THEN handlers' = [handlers EXCEPT ![r] = [Idle EXCEPT !.op = h.op, !.status = 400]]
           ELSE handlers' = [handlers EXCEPT ![r] =
                               [h EXCEPT !.pc = "close_update",
                                         !.session = payment_sessions[s]]]
    /\ UNCHANGED <<credit_balance, credit_transactions, payment_sessions,
                   session_payments, utcnow>>
    /\ UNCHANGED workerVars

\* close_session: the status is set to closed.
CloseUpdate(r) ==
    /\ handlers[r].pc = "close_update"
    /\ payment_sessions' =
           [payment_sessions EXCEPT ![handlers[r].session_id].status = "closed"]
    /\ Respond(r, 200)
    /\ UNCHANGED <<credit_balance, credit_transactions, session_payments,
                   utcnow, requests>>
    /\ UNCHANGED workerVars

\* A filter that takes every session whose time is over
AnyOld(row, cutoff) == row.expires_at < cutoff

\* .eq("status", "active").lt("expires_at", cutoff)
Expirable(row, cutoff) == row.status = "active" /\ row.expires_at < cutoff

\* session_expiration_task: SessionService.expire_old_sessions
ExpireOldSessions ==
    /\ ~LoopTaken(handlers)
    /\ \E s \in DOMAIN payment_sessions : Expirable(payment_sessions[s], utcnow)
    /\ payment_sessions' =
           [s \in DOMAIN payment_sessions |->
               IF Expirable(payment_sessions[s], utcnow)
               THEN [payment_sessions[s] EXCEPT !.status = "expired"]
               ELSE payment_sessions[s]]
    /\ UNCHANGED <<credit_balance, credit_transactions, session_payments,
                   utcnow, handlers, requests>>
    /\ UNCHANGED workerVars

\* datetime.fromisoformat(session["expires_at"]) < datetime.utcnow(): a value
\* with an offset cannot be compared with utcnow(), which has none (TypeError).
ExpiredNow(row, t) ==
    IF row.offset THEN Raise("TypeError") ELSE Ok(row.expires_at < t)

\* POST /api/webhooks/payment: the session is read and checked.
PaymentWebhook(r, s, payment_id, amount_credits) ==
    /\ ~LoopTaken(handlers) /\ Takes(r) /\ requests.webhook < MaxWebhooks
    /\ requests' = [requests EXCEPT !.webhook = @ + 1]
    /\ LET h == [Idle EXCEPT !.op = "webhook", !.session_id = s,
                             !.payment_id = payment_id,
                             !.amount = amount_credits]
       IN  IF s \notin DOMAIN payment_sessions
           THEN handlers' = [handlers EXCEPT ![r] = [Idle EXCEPT !.op = h.op, !.status = 404]]
           ELSE IF payment_sessions[s].status # "active"
           THEN handlers' = [handlers EXCEPT ![r] = [Idle EXCEPT !.op = h.op, !.status = 400]]
           ELSE IF ~ExpiredNow(payment_sessions[s], utcnow).ok
           THEN handlers' = [handlers EXCEPT ![r] = [Idle EXCEPT !.op = h.op, !.status = 500]]
           ELSE IF ExpiredNow(payment_sessions[s], utcnow).v
           THEN handlers' = [handlers EXCEPT ![r] = [Idle EXCEPT !.op = h.op, !.status = 400]]
           ELSE handlers' = [handlers EXCEPT ![r] =
                               [h EXCEPT !.pc = "debit_read",
                                         !.session = payment_sessions[s]]]
    /\ UNCHANGED <<credit_balance, credit_transactions, payment_sessions,
                   session_payments, utcnow>>
    /\ UNCHANGED workerVars

\* A debit that is made whatever the balance
AlwaysSufficient(current_balance, amount) == TRUE

\* debit_credits: if current_balance < amount, status 402
Sufficient(current_balance, amount) == ~(current_balance < amount)

\* debit_credits: the balance is read and checked against the total.
DebitCredits(r) ==
    /\ handlers[r].pc = "debit_read"
    /\ IF Sufficient(credit_balance,
                     calculate_payment_split(handlers[r].amount).total_amount)
       THEN GoOn(r, [handlers[r] EXCEPT !.balance = credit_balance],
                 "debit_update")
       ELSE Respond(r, 402)
    /\ UNCHANGED <<credit_balance, credit_transactions, payment_sessions,
                   session_payments, utcnow, requests>>
    /\ UNCHANGED workerVars

\* debit_credits: new_balance = current_balance - amount, written to users
DebitUpdate(r) ==
    /\ handlers[r].pc = "debit_update"
    /\ credit_balance' =
           handlers[r].balance
             - calculate_payment_split(handlers[r].amount).total_amount
    /\ GoOn(r, [handlers[r] EXCEPT !.balance = credit_balance'], "debit_insert")
    /\ UNCHANGED <<credit_transactions, payment_sessions, session_payments,
                   utcnow, requests>>
    /\ UNCHANGED workerVars

\* debit_credits: the transaction is recorded.
DebitInsert(r) ==
    /\ handlers[r].pc = "debit_insert"
    /\ credit_transactions' =
           Append(credit_transactions,
                  [transaction_type |-> "debit",
                   amount |-> calculate_payment_split(handlers[r].amount).total_amount,
                   balance_after |-> handlers[r].balance,
                   reference_id |-> handlers[r].payment_id])
    /\ GoOn(r, handlers[r], "payment")
    /\ UNCHANGED <<credit_balance, payment_sessions, session_payments, utcnow,
                   requests>>
    /\ UNCHANGED workerVars

\* The payment is recorded in session_payments, where payment_id is UNIQUE:
\* a second row with the same payment_id is refused, and the exception ends
\* the webhook with status 500.
RecordPayment(r) ==
    /\ handlers[r].pc = "payment"
    /\ IF \E i \in DOMAIN session_payments :
             session_payments[i].payment_id = handlers[r].payment_id
       THEN /\ Respond(r, 500)
            /\ UNCHANGED session_payments
       ELSE /\ session_payments' =
                   Append(session_payments,
                          [payment_id |-> handlers[r].payment_id,
                           session_id |-> handlers[r].session_id,
                           amount_credits |-> handlers[r].amount,
                           x402_status |-> "pending"])
            /\ GoOn(r, handlers[r], "x402")
    /\ UNCHANGED <<credit_balance, credit_transactions, payment_sessions,
                   utcnow, requests>>
    /\ UNCHANGED workerVars

\* A webhook that fails when the x402 payments fail
X402FailsWebhook(h) == [Idle EXCEPT !.op = h.op, !.status = 500]

\* except Exception (line 939): the webhook goes on to the session totals.
AfterX402Failure(h) == [h EXCEPT !.pc = "totals"]

\* send_x402_payments raises: PrivyClient has no send_transaction, and the
\* AttributeError becomes the HTTPException of line 613.  The payment is
\* marked failed.
SendX402(r) ==
    /\ handlers[r].pc = "x402"
    /\ session_payments' =
           [i \in DOMAIN session_payments |->
               IF session_payments[i].payment_id = handlers[r].payment_id
               THEN [session_payments[i] EXCEPT !.x402_status = "failed"]
               ELSE session_payments[i]]
    /\ handlers' = [handlers EXCEPT ![r] = AfterX402Failure(handlers[r])]
    /\ UNCHANGED <<credit_balance, credit_transactions, payment_sessions,
                   utcnow, requests>>
    /\ UNCHANGED workerVars

\* The session totals, from the session as it was read at the start
UpdateTotals(r) ==
    /\ handlers[r].pc = "totals"
    /\ payment_sessions' =
           [payment_sessions EXCEPT
              ![handlers[r].session_id].total_debited =
                  handlers[r].session.total_debited
                    + calculate_payment_split(handlers[r].amount).total_amount,
              ![handlers[r].session_id].payment_count =
                  handlers[r].session.payment_count + 1]
    /\ Respond(r, 200)
    /\ UNCHANGED <<credit_balance, credit_transactions, session_payments,
                   utcnow, requests>>
    /\ UNCHANGED workerVars

\* Time passes between two requests.
AdvanceClock ==
    /\ ~LoopTaken(handlers) /\ utcnow + ClockStep <= MaxClock
    /\ utcnow' = utcnow + ClockStep
    /\ UNCHANGED <<credit_balance, credit_transactions, payment_sessions,
                   session_payments, handlers, requests>>
    /\ UNCHANGED workerVars

\* The gateway: its endpoints and its background task
NextServer ==
    \/ \E r \in Slots, a \in DepositMenu : DepositCredits(r, a)
    \/ \E r \in Slots : AddUpdate(r)
    \/ \E r \in Slots : AddInsert(r)
    \/ CreateSession
    \/ \E r \in Slots, s \in 1..MaxSessions : CloseSession(r, s)
    \/ \E r \in Slots : CloseUpdate(r)
    \/ ExpireOldSessions
    \/ \E r \in Slots, s \in 1..MaxSessions, p \in PaymentIds, a \in WebhookMenu :
          PaymentWebhook(r, s, p, a)
    \/ \E r \in Slots : DebitCredits(r)
    \/ \E r \in Slots : DebitUpdate(r)
    \/ \E r \in Slots : DebitInsert(r)
    \/ \E r \in Slots : RecordPayment(r)
    \/ \E r \in Slots : SendX402(r)
    \/ \E r \in Slots : UpdateTotals(r)
    \/ AdvanceClock

SpecServer == Init /\ [][NextServer]_vars

----------------------------------------------------------------------------
(* The worker *)

\* The thread of job j, with the fields W open to updates and an engine of at
\* most maxPolls steps, for a job that does not enhance its prompt
Inference(j, W, maxPolls) ==
    \/ ThreadBegin(j)
    \/ ThreadCopy(j, W)
    \/ ThreadClear(j)
    \/ ThreadStep(j, maxPolls)
    \/ ThreadFail(j)
    \/ ThreadFinally(j)
    \/ ThreadSet(j)

\* The thread of job j
Thread(j, W, maxPolls) ==
    \/ Inference(j, W, maxPolls)
    \/ ThreadEnhance(j)

\* The generator may start another inference; the sender another frame.
MayInfer(maxJobs) == stop_event \/ njobs < maxJobs
MayEmit(maxEmit) == stop_event \/ Len(Videos(sink)) < maxEmit

\* The hosting runtime closes the stream: the stop_event, the on_stop call
Stops ==
    \/ ClientStop
    \/ StopBegin
    \/ Tick
    \/ StopResume

\* The calls of the hosting runtime that open and close streams, with the
\* parameters of menu for on_start
Lifecycle(menu) ==
    \/ Load
    \/ \E p \in menu : OnStart(p)
    \/ Stops

\* on_stop has not been called yet
NeverStopped == result.stop = "none"

\* The parameter updates of the hosting runtime
Updates(menu, maxUpdates) ==
    \/ updates.n < maxUpdates /\ \E p \in menu : UpdateParams(p)
    \/ UpdateStep

\* The _generate_images_for_video task
Generator(maxJobs) ==
    \/ MayInfer(maxJobs) /\ GenIter
    \/ GenResume
    \/ GenWake

\* The _send_frames task
Sender(maxEmit) ==
    \/ MayEmit(maxEmit) /\ SendTick
    \/ SendAudio
    \/ SendWake

\* The whole worker
Next ==
    \/ Lifecycle(StartMenu)
    \/ Updates(UpdateMenu, MaxUpdates)
    \/ Generator(MaxJobs)
    \/ Sender(MaxEmit)
    \/ \E j \in DOMAIN jobs :
          Thread(j, WrittenFields(StartMenu \cup UpdateMenu), MaxPolls)

Spec == Init /\ [][Next]_vars

\* Streams that start with the default configuration and are stopped and
\* started again, with their inferences
NextSessions ==
    \/ Lifecycle({EmptyParams})
    \/ Generator(MaxJobs)
    \/ \E j \in DOMAIN jobs :
          Inference(j, WrittenFields({EmptyParams}), MaxPolls)

SpecSessions == Init /\ [][NextSessions]_vars

\* One stream under parameter updates
NextUpdates ==
    \/ Load
    \/ \E p \in StartMenu : OnStart(p)
    \/ Updates(UpdateMenu, MaxUpdates)
    \/ Generator(UpdateJobs)
    \/ \E j \in DOMAIN jobs :
          Thread(j, WrittenFields(StartMenu \cup UpdateMenu), MaxPolls)

SpecUpdates == Init /\ [][NextUpdates]_vars

\* One stream under updates of the seed
NextSeedUpdates ==
    \/ Load
    \/ OnStart(EmptyParams)
    \/ Updates(SeedMenu, MaxUpdates)
    \/ Generator(UpdateJobs)
    \/ \E j \in DOMAIN jobs : Thread(j, WrittenFields(SeedMenu), MaxPolls)

SpecSeedUpdates == Init /\ [][NextSeedUpdates]_vars

\* The first stream, started with any of the seed policies, until it is
\* stopped
NextSeeds ==
    \/ Load
    \/ \E p \in PolicyMenu : NeverStopped /\ OnStart(p)
    \/ Stops
    \/ Generator(SeedJobs)
    \/ \E j \in DOMAIN jobs :
          Inference(j, WrittenFields(PolicyMenu), MaxPolls)

SpecSeeds == Init /\ [][NextSeeds]_vars

\* The first stream on an event loop that runs: a sleep of the generator
\* ends, the generator at the top of its loop goes on, and so does an on_stop
\* whose wait has ended.
SpecRetry ==
    /\ SpecSeeds
    /\ WF_vars(GenWake)
    /\ WF_vars(MayInfer(SeedJobs) /\ GenIter)
    /\ WF_vars(StopResume)

\* Streams with their frame emission
NextEmission ==
    \/ Lifecycle({EmptyParams})
    \/ Generator(EmitJobs)
    \/ Sender(MaxEmit)
    \/ \E j \in DOMAIN jobs :
          Inference(j, WrittenFields({EmptyParams}), MaxPolls)

SpecEmission == Init /\ [][NextEmission]_vars

\* The first stream with its frame emission, on an event loop that runs the
\* sender: its sleep ends, and its sends return.  Nothing makes a thread of
\* the executor go on.
NextCadence ==
    \/ Load
    \/ NeverStopped /\ OnStart(EmptyParams)
    \/ Stops
    \/ Generator(EmitJobs)
    \/ Sender(MaxEmit)
    \/ \E j \in DOMAIN jobs :
          Inference(j, WrittenFields({EmptyParams}), MaxPolls)

SpecCadence ==
    /\ Init /\ [][NextCadence]_vars
    /\ WF_vars(MayEmit(MaxEmit) /\ SendTick)
    /\ WF_vars(SendAudio)
    /\ WF_vars(SendWake)

\* Streams started with a size, stopped by on_stop and started again, with
\* their inferences, which end within the grace period, and their frame
\* emission
NextStarts ==
    \/ Load
    \/ \E p \in SizeMenu : OnStart(p)
    \/ StopBegin
    \/ StopResume
    \/ UpdateStep
    \/ Generator(StartJobs)
    \/ Sender(StartEmit)
    \/ \E j \in DOMAIN jobs :
          Inference(j, WrittenFields(SizeMenu), MaxPolls)

SpecStarts == Init /\ [][NextStarts]_vars

\* The calls of the hosting runtime with their parameters, before the tasks
\* of the stream run
NextParams ==
    \/ Load
    \/ \E p \in ParamStartMenu : OnStart(p)
    \/ StopBegin
    \/ Updates(ParamMenu, MaxParamCalls)

SpecParams == Init /\ [][NextParams]_vars

\* Streams with their inferences and their frame emission, stopped by
\* on_stop and started again, with parameter updates during the first stream
NextTiming ==
    \/ Load
    \/ OnStart(EmptyParams)
    \/ StopBegin
    \/ StopResume
    \/ NeverStopped /\ streaming /\ Updates(SizeMenu, TimingUpdates)
    \/ Generator(StartJobs)
    \/ Sender(StartEmit)
    \/ \E j \in DOMAIN jobs :
          Inference(j, WrittenFields(SizeMenu), MaxPolls)

SpecTiming == Init /\ [][NextTiming]_vars

----------------------------------------------------------------------------
(* Properties *)

\* The snapshot of job j is complete.
SnapshotTaken(j) ==
    jobs[j].pc \in {"clear", "enhance", "pipe", "finally", "set", "returned"}

\* The thread of job j has left the engine, or has ended.
JobOver(j) ==
    j \notin DOMAIN jobs \/ jobs[j].pc \in {"finally", "set", "returned"}

\* How job j ended, for a job that is running or was the last to end
OutcomeOf(j) ==
    IF j \in DOMAIN jobs THEN jobs[j].outcome
    ELSE IF ended.job = j THEN ended.outcome
    ELSE "unknown"

\* A task that does not run
TaskOver(task) == task.pc \in {"none", "done", "cancelled"}

\* This step records the end of a job, with outcome o.
JobEnds(o) == ended'.job # ended.job /\ ended'.outcome = o

\* This step changes the live seed as the seed policy says.
PolicyStep ==
    CASE cfg.seed_adjustment = "increment" -> cfg'.seed = BigAdd(cfg.seed, 1)
      [] cfg.seed_adjustment = "decrement" -> cfg'.seed = BigAdd(cfg.seed, -1)
      [] cfg.seed_adjustment = "random" ->
            BigLeq(Big(0), cfg'.seed) /\ BigLeq(cfg'.seed, SeedMax)
      [] OTHER -> cfg'.seed = cfg.seed

\* C1: at most one synthesis job is executing in the engine at any time,
\* also across stop / start cycles.
C1_OneJobInEngine == Cardinality({j \in DOMAIN jobs : InEngine(j)}) <= 1

\* C2: a job uses only the values of the snapshot taken at its start: the
\* enhancement guidance its prompt enhancement used is the snapshot's, whatever
\* update_params did meanwhile.
C2_JobUsesItsSnapshot ==
    \A j \in DOMAIN jobs :
        jobs[j].guidance # "" => jobs[j].guidance = jobs[j].snap.enhance_guidance

\* C3: on_stop waits at most the grace period of 20 for a running job, and
\* when the period is over it goes on although the job has not finished; it
\* ends without an exception (the timeout is only logged), and when it has
\* ended both tasks are cancelled and the task list is empty.
C3_StopReturns ==
    /\ stop.waited <= GracePeriod
    /\ result.stop \in {"none", "pending", "ok", "timeout"}
    /\ (stop.pc = "waiting" /\ stop.waited = GracePeriod) => ENABLED StopResume
    /\ (result.stop \in {"ok", "timeout"} /\ ~streaming) =>
          /\ background_tasks = <<>>
          /\ TaskOver(sender)
          /\ TaskOver(generator)

\* C3 witness: on_stop has ended by the timeout and has cancelled the tasks
\* while the job it waited for is still in the engine.
C3_Witness ==
    /\ result.stop = "timeout" /\ ~streaming
    /\ generator.pc = "cancelled"
    /\ \E j \in DOMAIN jobs : InEngine(j)

\* C4: during a session the Frame Holder holds the session's placeholder
\* until a job of the session has given an image, and from then on the image
\* of the last job of the session that gave one; a job that ends interrupted
\* or failed leaves it as it is.
C4_FrameHolder ==
    streaming =>
        IF good = 0
        THEN current_frame.kind = "placeholder" /\ current_frame = placeholder_frame
        ELSE current_frame.kind = "image" /\ current_frame.job = good

\* C4 witness: a job of the session failed or was interrupted after an
\* earlier one gave an image, and the Frame Holder holds the earlier image.
C4_Witness ==
    /\ streaming /\ good # 0
    /\ ended.delivered /\ ended.job > good
    /\ ended.outcome \in {"interrupted", "failed"}
    /\ current_frame.job = good

\* C5 as stated: every job that ends with an image changes the live seed once,
\* as the policy says, and nothing else changes the seed.
C5_SeedAfterEverySuccess ==
    [][/\ JobEnds("success") => PolicyStep
       /\ cfg'.seed # cfg.seed => JobEnds("success")]_vars

\* C5 amended: every job that ends with an image which the generator receives
\* changes the live seed once, as the policy says: increment by +1, decrement
\* by -1, random to a value of 0 .. 2**32 - 1, any other policy not at all;
\* nothing else changes the seed.
C5_SeedAfterReceivedSuccess ==
    [][/\ (JobEnds("success") /\ ended'.delivered) => PolicyStep
       /\ cfg'.seed # cfg.seed => (JobEnds("success") /\ ended'.delivered)]_vars

\* C5 witness: under the random policy a job gave an image and the seed is the
\* upper end of the range.
C5_Witness ==
    /\ ended.outcome = "success" /\ ended.delivered
    /\ cfg.seed_adjustment = "random"
    /\ cfg.seed = SeedMax

\* C6: the end of a job that was interrupted or failed leaves the live seed
\* unchanged, whatever the seed policy.
C6_SeedKeptAfterFailure ==
    [][(JobEnds("interrupted") \/ JobEnds("failed")) => cfg'.seed = cfg.seed]_vars

\* C6 witness: the generator received an interrupted job under a policy that
\* changes the seed.
C6_Witness ==
    /\ ended.outcome = "interrupted" /\ ended.delivered
    /\ cfg.seed_adjustment \in {"increment", "decrement", "random"}

\* C7: the video frames sent in a session have the timestamps 0, 5625,
\* 2 * 5625, ...: 90000 / 16 from one frame to the next.
C7_Timestamps ==
    /\ timestamp_increment = 5625
    /\ \A i \in DOMAIN Videos(sink) :
          Videos(sink)[i].timestamp = (i - 1) * 5625

\* C7 witness: two video frames were sent while a job had ended and on_stop
\* had been called before.
C7_Witness ==
    /\ Len(Videos(sink)) >= 2
    /\ ended.job # 0
    /\ result.stop # "none"

\* on_stop waits for the second job, which was running when it was called,
\* after the first job gave an image.
Scenario == stop.pc \in {"waiting", "woken"} /\ stop.job = 2 /\ stop.good = 1

\* C8 as stated: with the default configuration the seed is 43 once the first
\* job gave an image; a stop called while the second job runs sets the
\* interrupt flag, the second job ends interrupted, the seed is still 43 and
\* the Frame Holder still holds the first job's image.
C8_StopInterruptsSecondJob ==
    /\ good = 1 => cfg.seed = Big(43)
    /\ Scenario => interrupt_requested
    /\ (Scenario /\ JobOver(2) /\ OutcomeOf(2) # "failed") =>
          /\ OutcomeOf(2) = "interrupted"
          /\ cfg.seed = Big(43)
          /\ current_frame.kind = "image" /\ current_frame.job = 1

\* C8 amended: the same, for a second job that comes to a step boundary after
\* the stop: it ends interrupted; and whenever the second job ends interrupted
\* the seed is still 43 and the Frame Holder still holds the first job's image.
C8_StopInterruptsAtStepBoundary ==
    /\ good = 1 => cfg.seed = Big(43)
    /\ Scenario => interrupt_requested
    /\ (Scenario /\ 2 \in DOMAIN jobs /\ JobOver(2)
          /\ jobs[2].polls > stop.polls) => jobs[2].outcome = "interrupted"
    /\ (Scenario /\ JobOver(2) /\ OutcomeOf(2) = "interrupted") =>
          /\ cfg.seed = Big(43)
          /\ current_frame.kind = "image" /\ current_frame.job = 1

\* C8 witness: the second job came to a step boundary after the stop and
\* ended interrupted.
C8_Witness ==
    /\ Scenario /\ 2 \in DOMAIN jobs
    /\ jobs[2].polls > stop.polls
    /\ jobs[2].outcome = "interrupted"

\* C9: the job that starts next after an update_params call made while a job
\* was running has the supplied values in its snapshot (height 512), and None
\* for the preprocessed reference images.
C9_NextJobCarriesUpdate ==
    \A j \in DOMAIN jobs :
        (updates.during # 0 /\ j = updates.during + 1 /\ SnapshotTaken(j)) =>
            /\ Has(updates.params, "height") =>
                  jobs[j].snap.height = updates.params.height.v
            /\ Has(updates.params, "enhance_guidance") =>
                  jobs[j].snap.enhance_guidance = updates.params.enhance_guidance
            /\ jobs[j].snap.processed_reference_images = None

\* C9 witness: the job after the one that ran during update_params(height 512)
\* has taken its snapshot, with height 512.
C9_Witness ==
    \E j \in DOMAIN jobs :
        /\ updates.during # 0 /\ j = updates.during + 1 /\ SnapshotTaken(j)
        /\ Has(updates.params, "height")
        /\ jobs[j].snap.height = 512

\* C10: on_start while the runner is not ready raises RuntimeError and leaves
\* the configuration, the Frame Holder, the placeholder, the timing state and
\* the tasks as they were.
C10_StartNotReadyChangesNothing ==
    [][\A p \in StartMenu :
          (~runner_ready /\ OnStart(p)) =>
              /\ result'.start = "RuntimeError"
              /\ UNCHANGED <<cfg, current_frame, placeholder_frame,
                             frame_timestamp, timestamp_increment,
                             background_tasks, sender, generator, streaming>>]_vars

\* C10 witness: on_start has raised RuntimeError, and the runner is still not
\* ready.
C10_Witness == result.start = "RuntimeError" /\ ~runner_ready

\* This step is the successful return of on_start(p).
StartReturns(p) ==
    /\ ~streaming /\ streaming'
    /\ \/ OnStart(p)
       \/ UpdateStep /\ call.op = "start" /\ call.params = Unwrap(p)

\* The configuration c has the integer values the parameters p supply.
Supplied(c, p) == \A f \in DOMAIN p : p[f].t = "int" => c[f] = p[f].v

\* C11: when on_start returns without an exception the supplied parameters
\* are in the configuration, the Frame Holder holds a placeholder of the new
\* height and width, the output timestamp is 0, and the task list holds one
\* sender and one generator, which have sent no frame and started no job.
C11_StartResets ==
    [][\A p \in SizeMenu :
          StartReturns(p) =>
              /\ result'.start = "ok"
              /\ Supplied(cfg', Unwrap(p))
              /\ current_frame' = Placeholder(cfg'.height, cfg'.width)
              /\ placeholder_frame' = current_frame'
              /\ frame_timestamp' = 0
              /\ background_tasks' = <<"sender", "generator">>
              /\ sender' = [NoTask EXCEPT !.pc = "run"]
              /\ generator' = [NoTask EXCEPT !.pc = "top"]
              /\ sink' = <<>>]_vars

\* C11 witness: a second session was started with height 256 after a session
\* of 512 x 768 that sent a frame and ended a job; the Frame Holder has the
\* placeholder of 256 x 768 and the timestamp is 0.
C11_Witness ==
    /\ streaming /\ result.start = "ok" /\ result.stop \in {"ok", "timeout"}
    /\ ended.job # 0
    /\ cfg.height = 256 /\ cfg.width = 768
    /\ current_frame = Placeholder(256, 768)
    /\ frame_timestamp = 0
    /\ generator = [NoTask EXCEPT !.pc = "top"]

\* C12: on_stop while no session is active raises nothing and starts or
\* cancels nothing: a second on_stop in a row, or one before any on_start,
\* leaves the tasks, the empty task list, the empty frame queue, the
\* configuration, the Frame Holder, the timing state and the threads as the
\* first one left them.
C12_StopWithoutSession ==
    [][((StopBegin \/ StopResume) /\ ~streaming) =>
          /\ result'.stop \in {"pending", "ok", "timeout"}
          /\ background_tasks' = <<>> /\ frame_queue' = <<>>
          /\ TaskOver(sender') /\ TaskOver(generator')
          /\ UNCHANGED <<background_tasks, frame_queue, sender, generator,
                         streaming, cfg, inference_lock, stop_event, frameVars,
                         timingVars, flagVars, jobVars>>]_vars

\* C12 witness: on_stop was called again, with no on_start in between, after
\* an on_stop that cancelled the tasks while a thread was still running.
C12_Witness ==
    /\ ~streaming /\ generator.pc = "cancelled"
    /\ stop.pc \in {"waiting", "woken"}
    /\ result.stop = "pending"

\* C13: when on_stop is called while the thread of the job the generator
\* awaits is inside _run_inference_with_callback, on_stop waits, and it
\* cancels the tasks only when that job has ended (with an image, interrupted
\* or failed) or the grace period of 20 is over.
C13_StopWaitsForTheJob ==
    [][/\ (StopBegin /\ Awaited # 0 /\ ~JobOver(Awaited)) =>
              (stop'.pc \in {"waiting", "woken"} /\ UNCHANGED taskVars)
       /\ (StopResume /\ stop.job # 0) =>
              (JobOver(stop.job) \/ stop.waited >= GracePeriod)]_vars

\* The user-facing fields of the configuration
UserFields ==
    {"height", "width", "prompt", "steps", "guidance_scale", "seed",
     "seed_adjustment", "enhance_prompt", "enhance_guidance"}

\* The fields to which update_params(p), called with the configuration b,
\* gives another value than they had
Changed(b, p) ==
    {f \in UserFields : FieldValue(b, p, f).ok /\ FieldValue(b, p, f).v # b[f]}

\* The snapshot has the value of the call for one field the call changes and
\* the value from before the call for another.
Torn(snap, b, p) ==
    \E f, g \in Changed(b, p) :
        /\ snap[f] = FieldValue(b, p, f).v
        /\ snap[g] = b[g]

\* C14: no snapshot of a job holds some fields as one update_params call
\* left them and others as they were before that call (stated for the first
\* call, so that the values before and after it are known).
C14_NoTornSnapshot ==
    \A j \in DOMAIN jobs :
        (updates.n = 1 /\ SnapshotTaken(j)) =>
            ~Torn(jobs[j].snap, updates.before, updates.params)

\* This step is the end of an update_params call of the hosting runtime.
UpdateEnds ==
    /\ call'.op = "none"
    /\ updates'.n # updates.n \/ call.op = "update"

\* C15: an update_params call that fails on a malformed field leaves every
\* field of the configuration as it was before the call.
C15_FailedUpdateChangesNothing ==
    [][(UpdateEnds /\ result'.update # "ok") => cfg' = updates'.before]_vars

\* C16: an update_params call that returns leaves every user-facing field
\* its parameters do not name as it was before the call.
C16_AbsentFieldsKept ==
    [][(UpdateEnds /\ result'.update = "ok") =>
          \A f \in UserFields \ DOMAIN updates'.params :
              cfg'[f] = updates'.before[f]]_vars

\* The truth value the text of x stands for: yes, true, 1, y or on, in
\* upper or lower case.
Truthy(x) == x.t = "str" /\ Lower(x.v) \in TruthyWords

\* C18: an update_params call whose parameters name enhance_prompt returns,
\* with enhance_prompt true when the text of the value is one of yes, true,
\* 1, y, on (in upper or lower case), and false for every other value.
C18_EnhanceCoercion ==
    [][(UpdateEnds /\ Has(updates'.params, "enhance_prompt")) =>
          /\ result'.update = "ok"
          /\ cfg'.enhance_prompt = Truthy(updates'.params.enhance_prompt)]_vars

\* C19: for every positive height and width of the configuration
\* create_placeholder_frame succeeds, with an image of that height and width.
C19_PlaceholderForPositiveSizes ==
    (cfg.height > 0 /\ cfg.width > 0) =>
        /\ CreatePlaceholder(cfg).ok
        /\ CreatePlaceholder(cfg).v.height = cfg.height
        /\ CreatePlaceholder(cfg).v.width = cfg.width

\* C17: when an update_params call returns, the preprocessed reference images
\* of the configuration are None, also when the call changed no field; and
\* the snapshot of every job has None for them.
C17_DerivedCleared ==
    [][/\ (UpdateEnds /\ result'.update = "ok") =>
              cfg'.processed_reference_images = None
       /\ \A j \in DOMAIN jobs' :
              jobs'[j].pc \in {"clear", "enhance", "pipe", "finally", "set",
                               "returned"} =>
                  jobs'[j].snap.processed_reference_images = None]_vars

\* C17 witness: a second update_params call with the height the first one had
\* set has returned, and a job started after it has taken its snapshot.
C17_Witness ==
    /\ updates.n = 2 /\ call.op = "none" /\ result.update = "ok"
    /\ Has(updates.params, "height")
    /\ updates.before.height = updates.params.height.v
    /\ updates.before.enhance_prompt = FALSE
    /\ cfg.processed_reference_images = None
    /\ \E j \in DOMAIN jobs : j > updates.during /\ SnapshotTaken(j)

\* C20: a job that fails or is interrupted does not end the generator: the
\* generator goes to its back-off sleep, and from there (as long as the
\* model has a job left to start) it eventually starts the next job, unless
\* the stream is stopped: its loop ends by the stop_event or on_stop cancels
\* it.
C20_GeneratorSurvivesFailure ==
    /\ [][((JobEnds("failed") \/ JobEnds("interrupted")) /\ ended'.delivered) =>
              generator'.pc = "backoff"]_vars
    /\ (generator.pc = "backoff" /\ njobs < SeedJobs) ~>
           (generator.pc = "await" \/ TaskOver(generator))

\* C20 witness: the generator has started another job after one that failed.
C20_Witness ==
    /\ streaming /\ ended.delivered /\ ended.outcome = "failed"
    /\ generator.pc = "await" /\ generator.job > ended.job

\* The sender task runs.
Sending == sender.pc \in {"run", "audio", "sleep"}

\* C21: while the sender of a session runs it sends a further video frame (as
\* long as the model has one left to send), unless the stream is stopped:
\* its loop ends by the stop_event or on_stop cancels it.  No job needs to
\* make a step for that: a job that never ends does not hold the sender up.
C21_EmissionNotBlocked ==
    \A n \in 0..(MaxEmit - 1) :
        (Sending /\ Len(Videos(sink)) = n) ~>
            (Len(Videos(sink)) > n \/ TaskOver(sender))

\* C21 witness: the sender has sent all its video frames while the first job
\* of the stream is still in the engine.
C21_Witness ==
    /\ streaming /\ ~stop_event /\ ended = NoneEnded
    /\ Len(Videos(sink)) = MaxEmit
    /\ \E j \in DOMAIN jobs : InEngine(j)

\* The generator receives in this step the result of a job of the running
\* session.
LiveJobReceived ==
    /\ generator.pc = "await"
    /\ generator.job \in DOMAIN jobs
    /\ ~jobs[generator.job].orphan
    /\ jobs[generator.job].pc = "returned"

\* C22: once on_stop has returned and until the next on_start, no frame is
\* sent and the Frame Holder and the configuration with its seed stay as they
\* are; the next on_start leaves the new placeholder in the Frame Holder and
\* the timestamp 0, the first video frame of every session has timestamp 0,
\* and during a session only a job of that session changes the Frame Holder
\* or the seed.
C22_StoppedSessionIsSilent ==
    [][/\ (~streaming /\ ~streaming') => UNCHANGED <<sink, current_frame, cfg>>
       /\ (~streaming /\ streaming') =>
              /\ current_frame'.kind = "placeholder"
              /\ current_frame' = placeholder_frame'
              /\ sink' = <<>> /\ frame_timestamp' = 0
       /\ (streaming /\ streaming'
              /\ (current_frame' # current_frame \/ cfg'.seed # cfg.seed)) =>
              LiveJobReceived
       /\ Len(Videos(sink')) > 0 => Videos(sink')[1].timestamp = 0]_vars

\* C22 witness: the second session has sent its first video frame, with the
\* placeholder in the Frame Holder, after the job of the stopped session ended
\* without a generator to receive it.
C22_Witness ==
    /\ streaming /\ result.stop \in {"ok", "timeout"}
    /\ ended.job # 0 /\ ~ended.delivered
    /\ Len(Videos(sink)) >= 1 /\ Videos(sink)[1].timestamp = 0
    /\ current_frame.kind = "placeholder"

\* C23: the frames sent in a session are a video frame, its silent audio
\* frame, the next video frame, its audio frame, ...: every audio frame comes
\* right after a video frame and has its timestamp and time base, and no
\* video frame is sent before the audio frame of the one before it.
C23_AudioFollowsVideo ==
    \A i \in DOMAIN sink :
        IF i % 2 = 1
        THEN sink[i].kind = "video"
        ELSE /\ sink[i].kind = "audio"
             /\ sink[i].timestamp = sink[i - 1].timestamp
             /\ sink[i].time_base = sink[i - 1].time_base

\* C23 witness: two ticks of a session have sent their video and audio
\* frames.
C23_Witness ==
    /\ Len(sink) = 4
    /\ sink[4].kind = "audio" /\ sink[4].timestamp = 5625

\* No video frame is sent in a step that begins with the stop_event set, and
\* a sender at the top of its loop with the stop_event set ends.
NoFrameAfterStop ==
    /\ (stop_event /\ stop_event') => Videos(sink') = Videos(sink)
    /\ (stop_event /\ sender.pc = "run" /\ sender' # sender) =>
           sender'.pc \in {"done", "cancelled"}

\* C24 as stated: the sender checks the stop_event before it sleeps and after
\* it wakes up: with the stop_event set it ends instead of going to sleep, it
\* ends when it wakes up, and it sends no video frame.
C24_StopCheckedBeforeSleep ==
    [][/\ NoFrameAfterStop
       /\ (stop_event /\ sender.pc = "audio" /\ sender' # sender) =>
              sender'.pc \in {"done", "cancelled"}]_vars

\* C24 amended: the sender checks the stop_event once in an iteration, at the
\* top of its loop, which is right after it wakes up and before it builds the
\* video frame; it does not check it before it sleeps.  With the stop_event
\* set it sends no further video frame, a sender that has sent its video
\* frame still sends the audio frame and sleeps once, and it ends when it
\* wakes up.
C24_StopCheckedAfterWake ==
    [][/\ NoFrameAfterStop
       /\ (stop_event /\ sender.pc = "audio" /\ sender' # sender) =>
              sender'.pc \in {"sleep", "cancelled"}
       /\ (stop_event /\ sender.pc = "sleep" /\ sender' # sender) =>
              sender'.pc \in {"run", "cancelled"}]_vars

\* C24 witness: the sender has ended by the stop_event after it sent frames.
C24_Witness ==
    /\ streaming /\ stop_event /\ sender.pc = "done"
    /\ Len(Videos(sink)) >= 1

\* C25: while the sender of a session runs, the Frame Holder holds a frame:
\* the placeholder or an image, also before the first job has ended and when
\* the jobs fail.
C25_FrameHolderNeverEmpty ==
    Sending => current_frame.kind \in {"placeholder", "image"}

\* C25 witness: the sender has sent a video frame in a session whose only job
\* so far failed; the Frame Holder has the placeholder.
C25_Witness ==
    /\ streaming /\ Sending /\ good = 0
    /\ ended.delivered /\ ended.outcome = "failed"
    /\ Len(Videos(sink)) >= 1
    /\ current_frame.kind = "placeholder"

\* C26: the output timestamp changes only when the sender builds a video
\* frame, by one increment, and when on_start returns, to 0; the increment is
\* always 90000 / 16; no step of the generator, of a thread, of update_params
\* or of on_stop changes either.
C26_TimingWriters ==
    [][/\ timestamp_increment' = FloorDiv(time_base, fps)
       /\ (~streaming /\ streaming') => frame_timestamp' = 0
       /\ (frame_timestamp' # frame_timestamp /\ ~(~streaming /\ streaming')) =>
              /\ sender.pc = "run" /\ sender'.pc = "audio"
              /\ frame_timestamp' = frame_timestamp + timestamp_increment
              /\ Len(Videos(sink')) = Len(Videos(sink)) + 1
       /\ (generator' # generator \/ jobs' # jobs \/ updates' # updates
              \/ call' # call \/ stop' # stop \/ result'.stop # result.stop) =>
              (UNCHANGED timingVars \/ (~streaming /\ streaming'))]_vars

\* C26 witness: a session started after an on_stop has the timestamp of one
\* sent frame, after an update_params call and a job that ended.
C26_Witness ==
    /\ streaming /\ result.stop \in {"ok", "timeout"}
    /\ updates.n >= 1 /\ ended.job # 0
    /\ frame_timestamp = FloorDiv(time_base, fps)

\* C27: a thread that leaves the try block, with an image, interrupted or
\* failed, runs the finally block: it sets inference_in_progress to False and
\* then sets the completion event, which wakes an on_stop that waits; no
\* thread ends another way.
C27_JobEndSignalled ==
    [][\A j \in DOMAIN jobs :
          /\ (jobs[j].outcome = "running" /\ j \in DOMAIN jobs'
                 /\ jobs'[j].outcome # "running") =>
                 /\ jobs'[j].outcome \in {"success", "interrupted", "failed"}
                 /\ jobs'[j].pc = "finally"
          /\ (jobs[j].pc = "finally" /\ j \in DOMAIN jobs'
                 /\ jobs'[j].pc # "finally") =>
                 (jobs'[j].pc = "set" /\ ~inference_in_progress')
          /\ (jobs[j].pc = "set"
                 /\ (j \notin DOMAIN jobs' \/ jobs'[j].pc # "set")) =>
                 (inference_completed_event' /\ stop'.pc # "waiting")
          /\ j \notin DOMAIN jobs' => jobs[j].pc \in {"set", "returned"}]_vars

\* C27 witness: the job on_stop waited for has failed, and its finally block
\* has woken on_stop.
C27_Witness ==
    /\ stop.pc = "woken" /\ stop.job # 0
    /\ OutcomeOf(stop.job) = "failed"
    /\ ~inference_in_progress /\ inference_completed_event

\* C28: a job in the engine that comes to a step boundary while
\* interrupt_requested is set ends there, interrupted; and when a job ends
\* interrupted the Frame Holder and the seed stay as they are.  The first
\* part rests on ThreadStep, where an engine that finds _interrupt set ends
\* the call with an exception: the callback (389-395) only sets the
\* attribute, and what self.pipe does with it is not in this source.
C28_InterruptAtStepBoundary ==
    [][/\ \A j \in DOMAIN jobs :
              (/\ jobs[j].pc = "pipe" /\ interrupt_requested
               /\ j \in DOMAIN jobs' /\ jobs'[j].polls = jobs[j].polls + 1) =>
                  (jobs'[j].outcome = "interrupted" /\ jobs'[j].pc = "finally")
       /\ JobEnds("interrupted") =>
              UNCHANGED <<current_frame, cfg>>]_vars

\* C28 witness: the generator has received an interrupted job after a job
\* that gave an image, which the Frame Holder still holds.
C28_Witness ==
    /\ ended.outcome = "interrupted" /\ ended.delivered
    /\ good # 0 /\ ended.job > good
    /\ current_frame.kind = "image" /\ current_frame.job = good
    /\ generator.pc = "backoff"

\* C29: an update_params call that succeeds on a configuration of positive
\* height and width leaves the height and the width positive.
C29_SizesStayPositive ==
    [][(/\ UpdateEnds /\ result'.update = "ok"
        /\ updates'.before.height > 0 /\ updates'.before.width > 0) =>
           (cfg'.height > 0 /\ cfg'.width > 0)]_vars

\* C30: the interrupt request is cleared only in a step of the generator at
\* the start of an iteration, and only when no thread of an earlier job is
\* still before its finally block.
C30_InterruptKeptWhileJobRuns ==
    [][(interrupt_requested /\ ~interrupt_requested') =>
           /\ generator.pc = "top"
           /\ \A j \in DOMAIN jobs : JobOver(j)]_vars

\* The thread of job j is between line 405 and its finally block.
BeforeFinally(js, j) == js[j].pc \in {"copy", "clear", "enhance", "pipe"}

\* C31: after every step, inference_in_progress is true while the thread of
\* a job is between line 405 and its finally block; and no thread reaches
\* inference_completed_event.set() while the thread of another job is there.
C31_JobRecordConsistent ==
    [][/\ \A j \in DOMAIN jobs' :
              BeforeFinally(jobs', j) => inference_in_progress'
       /\ \A k \in DOMAIN jobs :
              (jobs[k].pc = "set" /\ inference_completed_event'
               /\ (k \notin DOMAIN jobs' \/ jobs'[k].pc # "set")) =>
                  \A j \in DOMAIN jobs \ {k} : ~BeforeFinally(jobs, j)]_vars

\* C32: when the first update_params call supplies a seed while the
\* generator awaits a job, the snapshot of the job after that one has the
\* supplied seed.
C32_NextJobUsesSuppliedSeed ==
    LET j == updates.during + 1
    IN  (/\ updates.n = 1 /\ updates.during # 0
         /\ "seed" \in DOMAIN updates.params
         /\ j \in DOMAIN jobs /\ SnapshotTaken(j)) =>
            jobs[j].snap.seed = Big(updates.params.seed.v)

----------------------------------------------------------------------------
(* Properties of the payment gateway *)

\* No endpoint is running.
Quiet == \A r \in Slots : handlers[r].pc = "idle"

\* The endpoint of slot r ends in this step with the status code.
Answers(r, status) ==
    handlers'[r].pc = "idle" /\ handlers'[r].status = status

\* C33: the credit balance is never negative, and a debit that is refused
\* with status 402 leaves the balance and the ledger as they were.
C33_BalanceNeverNegative ==
    [][/\ credit_balance' >= 0
       /\ \A r \in Slots :
              (handlers[r].pc = "debit_read" /\ Answers(r, 402)) =>
                  UNCHANGED <<credit_balance, credit_transactions>>]_vars

\* The debits of the ledger made for the payment id
DebitsFor(payment_id) ==
    {i \in DOMAIN credit_transactions :
        /\ credit_transactions[i].transaction_type = "debit"
        /\ credit_transactions[i].reference_id = payment_id}

\* The rows of session_payments with the payment id
PaymentsFor(payment_id) ==
    {i \in DOMAIN session_payments :
        session_payments[i].payment_id = payment_id}

\* C34: for every payment id the ledger holds at most one debit, and when no
\* endpoint is running every debit has its row in session_payments.
C34_DebitedOncePerPayment ==
    \A p \in PaymentIds :
        /\ Cardinality(DebitsFor(p)) <= 1
        /\ Quiet => (DebitsFor(p) # {} => PaymentsFor(p) # {})

\* The balance the transactions of the ledger add up to
RECURSIVE LedgerBalance(_)
LedgerBalance(txs) ==
    IF txs = <<>> THEN 0
    ELSE LET n == Len(txs)
         IN  LedgerBalance(SubSeq(txs, 1, n - 1))
               + (IF txs[n].transaction_type = "credit" THEN txs[n].amount
                  ELSE 0 - txs[n].amount)

\* C35: when no endpoint is running, the stored balance is the sum of the
\* recorded credits minus the sum of the recorded debits, and balance_after
\* of every transaction is the balance the ledger adds up to with it.
C35_LedgerMatchesBalance ==
    Quiet =>
        /\ credit_balance = LedgerBalance(credit_transactions)
        /\ \A i \in DOMAIN credit_transactions :
               credit_transactions[i].balance_after =
                   LedgerBalance(SubSeq(credit_transactions, 1, i))

\* C35 witness: a deposit and two debits are recorded and the balance is
\* what is left of the deposit.
C35_Witness ==
    /\ Quiet /\ Len(credit_transactions) = 3
    /\ credit_transactions[1].transaction_type = "credit"
    /\ credit_transactions[3].transaction_type = "debit"
    /\ credit_balance = credit_transactions[1].amount
                          - credit_transactions[2].amount
                          - credit_transactions[3].amount

\* The rows of session_payments of session s
PaymentsOf(s) ==
    {i \in DOMAIN session_payments : session_payments[i].session_id = s}

\* The total of usage and fee for the amounts of the rows in I
RECURSIVE TotalOf(_)
TotalOf(I) ==
    IF I = {} THEN 0
    ELSE LET i == CHOOSE k \in I : TRUE
             a == session_payments[i].amount_credits
         IN  a + (a * FEE_PERCENTAGE) \div 100 + TotalOf(I \ {i})

\* C36: a webhook that answers with success has debited the amount plus the
\* fee of FEE_PERCENTAGE, added that total to total_debited of its session
\* and 1 to its payment_count; and when no endpoint is running the totals of
\* every session are the sum and the number of its recorded payments.
C36_SessionTotals ==
    [][/\ \A r \in Slots :
              (/\ handlers[r].op = "webhook" /\ handlers[r].pc # "idle"
               /\ Answers(r, 200)) =>
                  LET s == handlers[r].session_id
                      a == handlers[r].amount
                      total == a + (a * FEE_PERCENTAGE) \div 100
                  IN  /\ payment_sessions'[s].total_debited =
                             payment_sessions[s].total_debited + total
                      /\ payment_sessions'[s].payment_count =
                             payment_sessions[s].payment_count + 1
                      /\ \E i \in DebitsFor(handlers[r].payment_id) :
                             credit_transactions[i].amount = total
       /\ Quiet' =>
              \A s \in DOMAIN payment_sessions' :
                  /\ payment_sessions'[s].total_debited = TotalOf(PaymentsOf(s))'
                  /\ payment_sessions'[s].payment_count =
                         Cardinality(PaymentsOf(s))']_vars

\* C36 witness: two payments of a session were processed with success.
C36_Witness ==
    /\ Quiet /\ Len(session_payments) = 2
    /\ payment_sessions[1].payment_count = 2
    /\ payment_sessions[1].total_debited = 42
    /\ credit_balance = 0

\* The tables of the database
tables == <<credit_balance, credit_transactions, payment_sessions,
            session_payments>>

\* C37: a webhook for a session that is not active, or whose expires_at is
\* before now, is answered with status 400 and changes no table.
C37_InactiveSessionRejected ==
    [][\A r \in Slots, s \in DOMAIN payment_sessions, p \in PaymentIds,
         a \in WebhookMenu :
          (/\ PaymentWebhook(r, s, p, a)
           /\ \/ payment_sessions[s].status # "active"
              \/ payment_sessions[s].expires_at < utcnow) =>
              (Answers(r, 400) /\ UNCHANGED tables)]_vars

\* C38: a session is created active; its status changes only from active,
\* to closed by close_session or to expired by expire_old_sessions when its
\* expires_at is before now; and close_session for a session that is not
\* active answers with status 400 and changes no table.
C38_SessionStatusMoves ==
    [][/\ \A s \in DOMAIN payment_sessions' :
              IF s \notin DOMAIN payment_sessions
              THEN payment_sessions'[s].status = "active"
              ELSE payment_sessions'[s].status # payment_sessions[s].status =>
                      /\ payment_sessions[s].status = "active"
                      /\ \/ /\ payment_sessions'[s].status = "closed"
                            /\ \E r \in Slots :
                                  /\ handlers[r].pc = "close_update"
                                  /\ handlers[r].session_id = s
                                  /\ handlers'[r].pc = "idle"
                         \/ /\ payment_sessions'[s].status = "expired"
                            /\ payment_sessions[s].expires_at < utcnow
                            /\ UNCHANGED handlers
       /\ \A r \in Slots, s \in DOMAIN payment_sessions :
              (CloseSession(r, s) /\ payment_sessions[s].status # "active") =>
                  (Answers(r, 400) /\ UNCHANGED tables)]_vars

\* C38 witness: a session has expired, and a close_session for it was
\* answered with status 400.
C38_Witness ==
    /\ Quiet
    /\ \E s \in DOMAIN payment_sessions : payment_sessions[s].status = "expired"
    /\ \A s \in DOMAIN payment_sessions : payment_sessions[s].status # "active"
    /\ \E r \in Slots : handlers[r].op = "close" /\ handlers[r].status = 400

\* C39: when the x402 payments of a webhook fail, the payment is marked
\* failed and the webhook goes on: it updates the totals of the session and
\* answers with success, and the debit and its transaction stay; a payment
\* is recorded as pending, and its x402_status changes only from pending, to
\* sent or to failed.
C39_X402FailureTolerated ==
    [][/\ \A r \in Slots :
              /\ (handlers[r].pc = "x402" /\ handlers'[r] # handlers[r]) =>
                     /\ \A i \in PaymentsFor(handlers[r].payment_id) :
                            session_payments'[i].x402_status = "failed"
                     /\ handlers'[r].pc = "totals"
                     /\ UNCHANGED <<credit_balance, credit_transactions>>
              /\ (handlers[r].pc = "totals" /\ handlers'[r] # handlers[r]) =>
                     /\ Answers(r, 200)
                     /\ payment_sessions'[handlers[r].session_id].payment_count
                            > payment_sessions[handlers[r].session_id].payment_count
                     /\ UNCHANGED <<credit_balance, credit_transactions,
                                    session_payments>>
       /\ \A i \in DOMAIN session_payments' :
              IF i \notin DOMAIN session_payments
              THEN session_payments'[i].x402_status = "pending"
              ELSE session_payments'[i].x402_status
                          # session_payments[i].x402_status =>
                      /\ session_payments[i].x402_status = "pending"
                      /\ session_payments'[i].x402_status \in {"sent", "failed"}]_vars

\* C39 witness: a webhook has answered with success for a payment whose x402
\* payments failed; the user is debited and the session counts the payment.
C39_Witness ==
    /\ \E r \in Slots : handlers[r].op = "webhook" /\ handlers[r].status = 200
    /\ Quiet /\ Len(session_payments) = 1
    /\ session_payments[1].x402_status = "failed"
    /\ payment_sessions[session_payments[1].session_id].payment_count = 1
    /\ DebitsFor(session_payments[1].payment_id) # {}
    /\ credit_balance = 21

=============================================================================
